---- MODULE Spec2Model ----
(***************************************************************************)
(* rust-slurp: a Wayland region selector (src/src/main.rs).                *)
(*                                                                         *)
(* The model follows main() and the Dispatch<...>::event handlers of State.*)
(* One action per handler; the event's arguments are drawn from small      *)
(* sets.  Coordinates are f64 in the source (pointer positions are         *)
(* wl_fixed values with a fractional part); here a coordinate v stands for *)
(* the real number v / Scale, so that `as i32` is a real truncation.       *)
(***************************************************************************)
EXTENDS Integers, Sequences, FiniteSets, TLC

\* ------------------------------------------------------------ bounds
\* Sub-pixel units per pixel of the modelled coordinates.
Scale == 2
\* wl_output globals the compositor advertises.
MaxOutputs == 2
\* Events a dispatch batch still delivers after `running` became false.
MaxLate == 1
\* Corner coordinates of the pure-function specification range over
\* -BoxRange..BoxRange (in sub-pixel units).
BoxRange == 2

\* ------------------------------------------------ program constants
BTN_LEFT == 272
BTN_RIGHT == 273
KEY_ESC == 1

\* Option<T>: None is <<>>, Some(v) is <<v>>.
None == <<>>
Some(v) == <<v>>
IsSome(o) == o # <<>>
Unwrap(o) == o[1]

\* ------------------------------------------------------ event inputs
\* Pointer positions local to a surface, in pixels times Scale:
\* (10,10) (50,40) (5,5) and (11, 40 + 1/Scale).
LocalPoints ==
  { <<10 * Scale, 10 * Scale>>, <<50 * Scale, 40 * Scale>>,
    <<5 * Scale, 5 * Scale>>, <<11 * Scale, 40 * Scale + 1>> }
\* The logical origin the xdg_output of the k-th output reports (i32 pixels):
\* outputs are laid out around the first one, which is at (0, 0) until told otherwise.
OriginOf(k) == IF k % 2 = 1 THEN <<-1920, -1080>> ELSE <<1920, 0>>
\* Sizes a configure of the k-th output's layer surface may report (u32 pixels):
\* the first output changes its size during the session, the others do not.
DimsOf(k) == IF k = 1 THEN { <<1920, 1080>>, <<1920, 1200>> } ELSE { <<1920, 1080>> }
\* Sizes a wl_output mode may report.
ModeSizes == { <<1920, 1080>> }
\* (button, state) of the pointer button events; 274 is the middle button.
ButtonEvents ==
  { << BTN_LEFT, "Pressed" >>, << BTN_LEFT, "Released" >>,
    << BTN_RIGHT, "Pressed" >>, << BTN_RIGHT, "Released" >>, << 274, "Pressed" >> }
\* (key, state) of the keyboard key events; 28 is the Enter key.
KeyEvents == { << KEY_ESC, "Pressed" >>, << KEY_ESC, "Released" >>, << 28, "Pressed" >> }
RequiredGlobals ==
  { "wl_compositor", "wl_shm", "zwlr_layer_shell_v1",
    "zxdg_output_manager_v1", "wl_seat" }

VARIABLES
  phase,          \* where main() is: roundtrip1, dispatch, exited, panicked
  running,        \* State.running
  exit_code,      \* State.exit_code
  globals,        \* the bound globals: compositor, shm, layer_shell, xdg_output_manager, seat
  outputs,        \* State.outputs
  start_pos,      \* State.start_pos
  current_pos,    \* State.current_pos
  current_output, \* State.current_output (1-based index)
  selections,     \* State.selections
  selection,      \* the local `selection` of the button handler, for the event just handled
  stdout,         \* the lines println! wrote, with their arguments
  stderr,         \* the lines eprintln! wrote
  status,         \* the status the process exited with
  live,           \* the memory mappings (Buffer.mmap) currently mapped
  configured,     \* per layer surface, the size of the last configure event sent to it
  commits,        \* the attach/damage/commit sequences of the event just handled
  acks,           \* the ack_configure requests of the event just handled
  requests,       \* the requests the event just handled sent, in the order sent
  allocs,         \* the mappings the event just handled created
  last,           \* the event just handled
  late            \* events handled in this batch after running became false

vars ==
  << phase, running, exit_code, globals, outputs, start_pos, current_pos,
     current_output, selections, selection, stdout, stderr, status, live,
     configured, commits, acks, requests, allocs, last, late >>

\* ------------------------------------------------------ pure helpers
Abs(v) == IF v < 0 THEN -v ELSE v
Min(a, b) == IF a < b THEN a ELSE b
Max(a, b) == IF a < b THEN b ELSE a

\* get_selection_box with the anchor taken for the top-left corner
get_selection_box_anchor(p1, p2) ==
  << p1[1], p1[2], Abs(p1[1] - p2[1]), Abs(p1[2] - p2[2]) >>

\* get_selection_box without the .abs() of the extents
get_selection_box_signed(p1, p2) ==
  << Min(p1[1], p2[1]), Min(p1[2], p2[2]), p1[1] - p2[1], p1[2] - p2[2] >>

\* fn get_selection_box(p1, p2) -> (x, y, w, h)
get_selection_box(p1, p2) ==
  << Min(p1[1], p2[1]), Min(p1[2], p2[2]), Abs(p1[1] - p2[1]), Abs(p1[2] - p2[2]) >>

\* the threshold with >= for >
CommitThreshold_ge(sel) == sel[3] >= Scale /\ sel[4] >= Scale

\* the threshold with || for &&
CommitThreshold_or(sel) == sel[3] > Scale \/ sel[4] > Scale

\* `selection.2 > 1.0 && selection.3 > 1.0`
CommitThreshold(sel) == sel[3] > Scale /\ sel[4] > Scale

\* `v as i32` of an f64: truncation toward zero, saturating at the i32 range.
AsI32(v) ==
  LET t == IF v >= 0 THEN v \div Scale ELSE -((-v) \div Scale)
  IN  IF t > 2147483647 THEN 2147483647
      ELSE IF t < -2147483647 - 1 THEN -2147483647 - 1
      ELSE t

\* println!("{},{} {}x{}", ...)
FormatLine(a) ==
  ToString(a[1]) \o "," \o ToString(a[2]) \o " " \o ToString(a[3]) \o "x" \o ToString(a[4])

\* the lifting without the output's origin
ToGlobal_local(origin, p) == p

\* `(ox as f64 + surface_x, oy as f64 + surface_y)`
ToGlobal(origin, p) == << origin[1] * Scale + p[1], origin[2] * Scale + p[2] >>

\* `gx - output_pos.0 as f64`, `current_pos.0 - output_pos.0 as f64`
ToLocal(origin, g) == << g[1] - origin[1] * Scale, g[2] - origin[2] * Scale >>

\* outputs.iter().position(|o| o.<field>.id() == id): 0 stands for None
RECURSIVE PositionFrom(_, _, _, _)
PositionFrom(outs, field, id, i) ==
  IF i > Len(outs) THEN 0
  ELSE IF outs[i][field] = id THEN i
  ELSE PositionFrom(outs, field, id, i + 1)
Position(outs, field, id) == PositionFrom(outs, field, id, 1)

\* draw_selections leaving the rectangles in global space
RECURSIVE draw_selections_global(_, _)
draw_selections_global(sels, output_pos) ==
  IF sels = <<>> THEN <<>>
  ELSE << Head(sels) >> \o draw_selections_global(Tail(sels), output_pos)

\* draw_selections: the rectangles cleared and stroked, in output-local space
RECURSIVE draw_selections(_, _)
draw_selections(sels, output_pos) ==
  IF sels = <<>> THEN <<>>
  ELSE LET s == Head(sels)
           l == ToLocal(output_pos, << s[1], s[2] >>)
       IN  << << l[1], l[2], s[3], s[4] >> >> \o draw_selections(Tail(sels), output_pos)

\* State::draw_on_output: the surface commit it makes, if the output has a buffer
draw_on_output(outs, sels, sp, cp, i) ==
  IF i < 1 \/ i > Len(outs) THEN <<>>
  ELSE IF ~IsSome(outs[i].buffer) THEN <<>>
  ELSE LET buffer == Unwrap(outs[i].buffer)
           all_selections ==
             IF IsSome(sp) THEN Append(sels, get_selection_box(Unwrap(sp), cp)) ELSE sels
       IN  << [ output |-> i,
                surface |-> outs[i].surface,
                mmap |-> buffer.mmap,
                width |-> buffer.width,
                height |-> buffer.height,
                rects |-> draw_selections(all_selections, outs[i].logical_pos),
                crosshair |-> ToLocal(outs[i].logical_pos, cp) ] >>

\* State::draw: every output in order
RECURSIVE DrawFrom(_, _, _, _, _)
DrawFrom(outs, sels, sp, cp, i) ==
  IF i > Len(outs) THEN <<>>
  ELSE draw_on_output(outs, sels, sp, cp, i) \o DrawFrom(outs, sels, sp, cp, i + 1)
\* draw painting the first output only
draw_first(outs, sels, sp, cp) == draw_on_output(outs, sels, sp, cp, 1)

draw(outs, sels, sp, cp) == DrawFrom(outs, sels, sp, cp, 1)

\* The requests of the paints, in order: attach, damage_buffer and commit on
\* the surface of each paint.
RECURSIVE PaintRequests(_)
PaintRequests(paints) ==
  IF paints = <<>> THEN <<>>
  ELSE LET c == Head(paints)
       IN  << << "attach", c.surface, c.mmap >>,
              << "damage_buffer", c.surface, c.width, c.height >>,
              << "commit", c.surface >> >> \o PaintRequests(Tail(paints))

\* the configure handler acknowledging after it painted
ConfigureRequests_late(surface, paints) ==
  PaintRequests(paints) \o << << "ack_configure", surface >> >>

\* The requests of the configure handler: `surface.ack_configure(serial)`
\* first, then those of draw_on_output.
ConfigureRequests(surface, paints) ==
  << << "ack_configure", surface >> >> \o PaintRequests(paints)

\* An object id that no output of the session has.
StrayId == MaxOutputs + 1

\* ------------------------------------------------------------- Init
\* main(): the State literal, before the first roundtrip
Init ==
  /\ phase = "roundtrip1"
  /\ running = TRUE
  /\ exit_code = 0
  /\ globals = {}
  /\ outputs = <<>>
  /\ start_pos = None
  /\ current_pos = << 0, 0 >>
  /\ current_output = None
  /\ selections = <<>>
  /\ selection = None
  /\ stdout = <<>>
  /\ stderr = <<>>
  /\ status = None
  /\ live = {}
  /\ configured = <<>>
  /\ commits = <<>>
  /\ acks = <<>>
  /\ requests = <<>>
  /\ allocs = <<>>
  /\ last = << "none" >>
  /\ late = 0

\* ------------------------------------------------------ event queue
\* The queue delivers events in batches: the second roundtrip is the first
\* batch, every blocking_dispatch call is another.  `running` is only tested
\* between batches, so a batch goes on delivering after it became false.
Dispatching ==
  /\ phase = "dispatch"
  /\ running \/ late < MaxLate

\* Bookkeeping common to every handled event.
Handled(ev) ==
  /\ last' = ev
  /\ late' = IF running THEN late ELSE late + 1

\* The process is gone: its memory (State, the mappings) no longer exists; what
\* remains observable is the exit status and what was written to stdout and stderr.
Terminated(how, code) ==
  /\ phase' = how
  /\ status' = Some(code)
  /\ globals' = {}
  /\ outputs' = <<>>
  /\ start_pos' = None
  /\ current_pos' = << 0, 0 >>
  /\ current_output' = None
  /\ selection' = None
  /\ live' = {}
  /\ configured' = <<>>
  /\ commits' = <<>>
  /\ acks' = <<>>
  /\ requests' = <<>>
  /\ allocs' = <<>>
  /\ last' = << how >>
  /\ late' = 0
  /\ UNCHANGED << running, exit_code, selections, stdout >>

\* ------------------------------------------------- registry handler
\* Dispatch<WlRegistry>::event, Event::Global.  The compositor advertises each
\* singleton global at most once, during the first roundtrip; a wl_output may
\* also appear later (hot-plug).
RegistryGlobal(interface) ==
  /\ \/ /\ phase = "roundtrip1"
        /\ interface \in (RequiredGlobals \ globals) \cup { "wl_output", "other" }
     \/ /\ Dispatching
        /\ interface = "wl_output"
  /\ interface = "wl_output" => Len(outputs) < MaxOutputs
  /\ IF interface \in RequiredGlobals
     THEN /\ globals' = globals \cup { interface }
          /\ Handled(<< "Global", interface >>)
          /\ selection' = None
          /\ commits' = <<>>
          /\ acks' = <<>>
          /\ requests' = <<>>
          /\ allocs' = <<>>
          /\ UNCHANGED << phase, outputs, configured, status, live, stderr,
                          running, exit_code, start_pos, current_pos, current_output,
                          selections, stdout >>
     ELSE IF interface = "wl_output"
     THEN IF { "wl_compositor", "zwlr_layer_shell_v1", "zxdg_output_manager_v1" } \subseteq globals
          THEN LET k == Len(outputs) + 1
               IN  /\ outputs' = Append(outputs,
                        [ output |-> k, xdg_output |-> k, logical_pos |-> << 0, 0 >>,
                          size |-> << 0, 0 >>, surface |-> k, layer_surface |-> k,
                          buffer |-> None ])
                   /\ configured' = Append(configured, None)
                   /\ Handled(<< "Global", interface >>)
                   /\ selection' = None
                   /\ commits' = <<>>
                   /\ acks' = <<>>
                   /\ requests' = << << "commit", k >> >>   \* surface.commit(), no buffer attached
                   /\ allocs' = <<>>
                   /\ UNCHANGED << phase, globals, status, live, stderr,
                                   running, exit_code, start_pos, current_pos, current_output,
                                   selections, stdout >>
          ELSE \* Option::unwrap on None panics: the process ends with status 101
               /\ Terminated("panicked", 101)
               /\ stderr' = Append(stderr, "panicked")
     ELSE /\ Handled(<< "Global", interface >>)
          /\ selection' = None
          /\ commits' = <<>>
          /\ acks' = <<>>
          /\ requests' = <<>>
          /\ allocs' = <<>>
          /\ UNCHANGED << phase, globals, outputs, configured, status, live, stderr,
                          running, exit_code, start_pos, current_pos, current_output,
                          selections, stdout >>

\* ------------------------------------------------- keyboard handler
\* the key handler without `state.exit_code = 1`
KeyboardKey_status(key, key_state) ==
  /\ Dispatching
  /\ "wl_seat" \in globals
  /\ Handled(<< "Key", key, key_state >>)
  /\ selection' = None
  /\ commits' = <<>>
  /\ acks' = <<>>
  /\ requests' = <<>>
  /\ allocs' = <<>>
  /\ IF key = KEY_ESC /\ key_state = "Pressed"
     THEN running' = FALSE
     ELSE UNCHANGED running
  /\ UNCHANGED << phase, exit_code, globals, outputs, start_pos, current_pos, current_output,
                  selections, stdout, stderr, status, live, configured >>

\* Dispatch<WlKeyboard>::event, Event::Key
KeyboardKey(key, key_state) ==
  /\ Dispatching
  /\ "wl_seat" \in globals
  /\ Handled(<< "Key", key, key_state >>)
  /\ selection' = None
  /\ commits' = <<>>
  /\ acks' = <<>>
  /\ requests' = <<>>
  /\ allocs' = <<>>
  /\ IF key = KEY_ESC /\ key_state = "Pressed"
     THEN /\ running' = FALSE
          /\ exit_code' = 1
     ELSE UNCHANGED << running, exit_code >>
  /\ UNCHANGED << phase, globals, outputs, start_pos, current_pos, current_output,
                  selections, stdout, stderr, status, live, configured >>

\* -------------------------------------------------- pointer handler
\* Enter moving the anchor of a drag to the place of entry
PointerEnter_anchor(surface, p) ==
  /\ Dispatching
  /\ "wl_seat" \in globals
  /\ \/ /\ surface \in 1..Len(outputs)
        /\ IsSome(outputs[surface].buffer)   \* the pointer only enters a mapped surface
     \/ surface = StrayId
  /\ Handled(<< "Enter", surface, p >>)
  /\ selection' = None
  /\ acks' = <<>>
  /\ allocs' = <<>>
  /\ LET index == Position(outputs, "surface", surface)
     IN  IF index # 0
         THEN /\ current_output' = Some(index)
              /\ current_pos' = ToGlobal(outputs[index].logical_pos, p)
              /\ start_pos' = IF IsSome(start_pos) THEN Some(current_pos') ELSE start_pos
              /\ commits' = draw(outputs, selections, start_pos', current_pos')
         ELSE /\ UNCHANGED << current_output, current_pos, start_pos >>
              /\ commits' = <<>>
  /\ requests' = PaintRequests(commits')
  /\ UNCHANGED << phase, running, exit_code, globals, outputs,
                  selections, stdout, stderr, status, live, configured >>

\* Dispatch<WlPointer>::event, Event::Enter
PointerEnter(surface, p) ==
  /\ Dispatching
  /\ "wl_seat" \in globals
  /\ \/ /\ surface \in 1..Len(outputs)
        /\ IsSome(outputs[surface].buffer)   \* the pointer only enters a mapped surface
     \/ surface = StrayId
  /\ Handled(<< "Enter", surface, p >>)
  /\ selection' = None
  /\ acks' = <<>>
  /\ allocs' = <<>>
  /\ LET index == Position(outputs, "surface", surface)
     IN  IF index # 0
         THEN /\ current_output' = Some(index)
              /\ current_pos' = ToGlobal(outputs[index].logical_pos, p)
              /\ commits' = draw(outputs, selections, start_pos, current_pos')
         ELSE /\ UNCHANGED << current_output, current_pos >>
              /\ commits' = <<>>
  /\ requests' = PaintRequests(commits')
  /\ UNCHANGED << phase, running, exit_code, globals, outputs, start_pos,
                  selections, stdout, stderr, status, live, configured >>

\* Leave that also drops the anchor
PointerLeave_cancel ==
  /\ Dispatching
  /\ "wl_seat" \in globals
  /\ Handled(<< "Leave" >>)
  /\ selection' = None
  /\ commits' = <<>>
  /\ acks' = <<>>
  /\ requests' = <<>>
  /\ allocs' = <<>>
  /\ current_output' = None
  /\ start_pos' = None
  /\ UNCHANGED << phase, running, exit_code, globals, outputs, current_pos,
                  selections, stdout, stderr, status, live, configured >>

\* Dispatch<WlPointer>::event, Event::Leave
PointerLeave ==
  /\ Dispatching
  /\ "wl_seat" \in globals
  /\ Handled(<< "Leave" >>)
  /\ selection' = None
  /\ commits' = <<>>
  /\ acks' = <<>>
  /\ requests' = <<>>
  /\ allocs' = <<>>
  /\ current_output' = None
  /\ UNCHANGED << phase, running, exit_code, globals, outputs, start_pos, current_pos,
                  selections, stdout, stderr, status, live, configured >>

\* Motion repainting whether or not a drag is in progress
PointerMotion_always(p) ==
  /\ Dispatching
  /\ "wl_seat" \in globals
  /\ Handled(<< "Motion", p >>)
  /\ selection' = None
  /\ acks' = <<>>
  /\ allocs' = <<>>
  /\ IF IsSome(current_output) /\ Unwrap(current_output) \in 1..Len(outputs)
     THEN /\ current_pos' = ToGlobal(outputs[Unwrap(current_output)].logical_pos, p)
          /\ commits' = draw(outputs, selections, start_pos, current_pos')
     ELSE /\ UNCHANGED current_pos
          /\ commits' = <<>>
  /\ requests' = PaintRequests(commits')
  /\ UNCHANGED << phase, running, exit_code, globals, outputs, start_pos, current_output,
                  selections, stdout, stderr, status, live, configured >>

\* Dispatch<WlPointer>::event, Event::Motion
PointerMotion(p) ==
  /\ Dispatching
  /\ "wl_seat" \in globals
  /\ Handled(<< "Motion", p >>)
  /\ selection' = None
  /\ acks' = <<>>
  /\ allocs' = <<>>
  /\ IF IsSome(current_output) /\ Unwrap(current_output) \in 1..Len(outputs)
     THEN /\ current_pos' = ToGlobal(outputs[Unwrap(current_output)].logical_pos, p)
          /\ commits' = IF IsSome(start_pos)
                        THEN draw(outputs, selections, start_pos, current_pos')
                        ELSE <<>>
     ELSE /\ UNCHANGED current_pos
          /\ commits' = <<>>
  /\ requests' = PaintRequests(commits')
  /\ UNCHANGED << phase, running, exit_code, globals, outputs, start_pos, current_output,
                  selections, stdout, stderr, status, live, configured >>

\* the release of the primary button cancelling when no anchor is set
PointerButton_idle(button, btn_state) ==
  /\ Dispatching
  /\ "wl_seat" \in globals
  /\ Handled(<< "Button", button, btn_state >>)
  /\ commits' = <<>>
  /\ acks' = <<>>
  /\ requests' = <<>>
  /\ allocs' = <<>>
  /\ IF button = BTN_LEFT
     THEN IF btn_state = "Pressed"
          THEN /\ start_pos' = Some(current_pos)
               /\ selection' = None
               /\ UNCHANGED << running, exit_code, stdout >>
          ELSE IF IsSome(start_pos)
               THEN LET sel == get_selection_box(Unwrap(start_pos), current_pos)
                        args == << AsI32(sel[1]), AsI32(sel[2]), AsI32(sel[3]), AsI32(sel[4]) >>
                    IN  /\ start_pos' = None
                        /\ selection' = Some(sel)
                        /\ IF CommitThreshold(sel)
                           THEN /\ stdout' = Append(stdout, [ text |-> FormatLine(args), args |-> args ])
                                /\ exit_code' = 0
                           ELSE /\ exit_code' = 1
                                /\ UNCHANGED stdout
                        /\ running' = FALSE
               ELSE /\ selection' = None
                    /\ running' = FALSE
                    /\ exit_code' = 1
                    /\ UNCHANGED << start_pos, stdout >>
     ELSE IF button = BTN_RIGHT
     THEN /\ running' = FALSE
          /\ exit_code' = 1
          /\ selection' = None
          /\ UNCHANGED << start_pos, stdout >>
     ELSE /\ selection' = None
          /\ UNCHANGED << start_pos, running, exit_code, stdout >>
  /\ UNCHANGED << phase, globals, outputs, current_pos, current_output,
                  selections, stderr, status, live, configured >>

\* Dispatch<WlPointer>::event, Event::Button
PointerButton(button, btn_state) ==
  /\ Dispatching
  /\ "wl_seat" \in globals
  /\ Handled(<< "Button", button, btn_state >>)
  /\ commits' = <<>>
  /\ acks' = <<>>
  /\ requests' = <<>>
  /\ allocs' = <<>>
  /\ IF button = BTN_LEFT
     THEN IF btn_state = "Pressed"
          THEN /\ start_pos' = Some(current_pos)
               /\ selection' = None
               /\ UNCHANGED << running, exit_code, stdout >>
          ELSE IF IsSome(start_pos)
               THEN LET sel == get_selection_box(Unwrap(start_pos), current_pos)
                        args == << AsI32(sel[1]), AsI32(sel[2]), AsI32(sel[3]), AsI32(sel[4]) >>
                    IN  /\ start_pos' = None
                        /\ selection' = Some(sel)
                        /\ IF CommitThreshold(sel)
                           THEN /\ stdout' = Append(stdout, [ text |-> FormatLine(args), args |-> args ])
                                /\ exit_code' = 0
                           ELSE /\ exit_code' = 1
                                /\ UNCHANGED stdout
                        /\ running' = FALSE
               ELSE /\ selection' = None
                    /\ UNCHANGED << start_pos, running, exit_code, stdout >>
     ELSE IF button = BTN_RIGHT
     THEN /\ running' = FALSE
          /\ exit_code' = 1
          /\ selection' = None
          /\ UNCHANGED << start_pos, stdout >>
     ELSE /\ selection' = None
          /\ UNCHANGED << start_pos, running, exit_code, stdout >>
  /\ UNCHANGED << phase, globals, outputs, current_pos, current_output,
                  selections, stderr, status, live, configured >>

\* -------------------------------------------- layer-surface handler
\* the reuse test comparing the width only
SameSize_width(buffer, width, height) ==
  /\ IsSome(buffer)
  /\ Unwrap(buffer).width = width

\* the reuse test without the comparison of the size
SameSize_any(buffer, width, height) == IsSome(buffer)

\* `buffer.is_some() && buffer.width == width as i32 && buffer.height == height as i32`
SameSize(buffer, width, height) ==
  /\ IsSome(buffer)
  /\ Unwrap(buffer).width = width
  /\ Unwrap(buffer).height = height

\* tempfile() + create_pool + MmapMut::map_mut: a mapping that is not mapped yet
NewMapping(mapped) ==
  CHOOSE i \in 1..(Cardinality(mapped) + 1) :
    /\ i \notin mapped
    /\ \A j \in 1..(i - 1) : j \in mapped

\* Dispatch<ZwlrLayerSurfaceV1>::event, Event::Configure
LayerSurfaceConfigure(surface, width, height) ==
  /\ Dispatching
  /\ \/ /\ surface \in 1..Len(outputs)
        /\ outputs[surface].size # << 0, 0 >>   \* the bind of the output was answered first
     \/ surface = StrayId
  /\ Handled(<< "Configure", surface, width, height >>)
  /\ selection' = None
  /\ acks' = << surface >>
  /\ configured' = IF surface \in 1..Len(outputs)
                   THEN [ configured EXCEPT ![surface] = Some(<< width, height >>) ]
                   ELSE configured
  /\ LET output_index == Position(outputs, "layer_surface", surface)
     IN  IF output_index = 0
         THEN /\ commits' = <<>>
              /\ allocs' = <<>>
              /\ UNCHANGED << outputs, live >>
         ELSE IF SameSize(outputs[output_index].buffer, width, height)
         THEN /\ commits' = draw_on_output(outputs, selections, start_pos, current_pos, output_index)
              /\ allocs' = <<>>
              /\ UNCHANGED << outputs, live >>
         ELSE LET id == NewMapping(live)
                  old == outputs[output_index].buffer
                  dropped == IF IsSome(old) THEN { Unwrap(old).mmap } ELSE {}
              IN  /\ outputs' = [ outputs EXCEPT ![output_index].buffer =
                                    Some([ pool |-> id, width |-> width, height |-> height,
                                           file |-> id, mmap |-> id ]) ]
                  /\ live' = (live \cup { id }) \ dropped
                  /\ allocs' = << id >>
                  /\ commits' = draw_on_output(outputs', selections, start_pos, current_pos, output_index)
  /\ requests' = ConfigureRequests(surface, commits')
  /\ UNCHANGED << phase, running, exit_code, globals, start_pos, current_pos, current_output,
                  selections, stdout, stderr, status >>

\* Dispatch<ZwlrLayerSurfaceV1>::event, Event::Closed
LayerSurfaceClosed(surface) ==
  /\ Dispatching
  /\ surface \in 1..Len(outputs)
  /\ Handled(<< "Closed", surface >>)
  /\ selection' = None
  /\ commits' = <<>>
  /\ acks' = <<>>
  /\ requests' = <<>>
  /\ allocs' = <<>>
  /\ running' = FALSE
  /\ exit_code' = 1
  /\ UNCHANGED << phase, globals, outputs, start_pos, current_pos, current_output,
                  selections, stdout, stderr, status, live, configured >>

\* --------------------------------------------------- output handlers
\* Dispatch<WlOutput>::event, Event::Mode
OutputMode(output, width, height) ==
  /\ Dispatching
  /\ \/ /\ output \in 1..Len(outputs)
        /\ ~IsSome(configured[output])   \* the mode is part of the answer to the bind
     \/ output = StrayId
  /\ Handled(<< "Mode", output, width, height >>)
  /\ selection' = None
  /\ commits' = <<>>
  /\ acks' = <<>>
  /\ requests' = <<>>
  /\ allocs' = <<>>
  /\ LET i == Position(outputs, "output", output)
     IN  IF i # 0
         THEN outputs' = [ outputs EXCEPT ![i].size = << width, height >> ]
         ELSE UNCHANGED outputs
  /\ UNCHANGED << phase, running, exit_code, globals, start_pos, current_pos, current_output,
                  selections, stdout, stderr, status, live, configured >>

\* Dispatch<ZxdgOutputV1>::event, Event::LogicalPosition
XdgOutputLogicalPosition(xdg_output, x, y) ==
  /\ Dispatching
  /\ \/ /\ xdg_output \in 1..Len(outputs)
        /\ outputs[xdg_output].size # << 0, 0 >>   \* the bind of the output was answered first
     \/ xdg_output = StrayId
  /\ Handled(<< "LogicalPosition", xdg_output, x, y >>)
  /\ selection' = None
  /\ commits' = <<>>
  /\ acks' = <<>>
  /\ requests' = <<>>
  /\ allocs' = <<>>
  /\ LET i == Position(outputs, "xdg_output", xdg_output)
     IN  IF i # 0
         THEN outputs' = [ outputs EXCEPT ![i].logical_pos = << x, y >> ]
         ELSE UNCHANGED outputs
  /\ UNCHANGED << phase, running, exit_code, globals, start_pos, current_pos, current_output,
                  selections, stdout, stderr, status, live, configured >>

\* ------------------------------------------------------------ main()
\* After the first roundtrip: the check of the required globals
EndRoundtrip1 ==
  /\ phase = "roundtrip1"
  /\ LET missing == RequiredGlobals \ globals
     IN  IF missing # {}
         THEN /\ stderr' = << "Error: Your compositor does not support the required Wayland protocols.",
                              missing >>
              /\ Terminated("exited", 1)
         ELSE /\ phase' = "dispatch"
              /\ UNCHANGED << running, exit_code, globals, outputs, start_pos, current_pos,
                              current_output, selections, selection, stdout, stderr, status,
                              live, configured, commits, acks, requests, allocs, last, late >>

\* A batch ends with `running` still true: the roundtrip returns, or the
\* `while state.running` test succeeds, and the next blocking_dispatch begins.
LoopContinue ==
  /\ phase = "dispatch"
  /\ running
  /\ UNCHANGED vars

\* A batch ends with `running` false: the loop test fails, exit(state.exit_code)
ProcessExit ==
  /\ phase = "dispatch"
  /\ ~running
  /\ Terminated("exited", exit_code)
  /\ UNCHANGED stderr

Next ==
  \/ \E interface \in RequiredGlobals \cup { "wl_output", "other" } : RegistryGlobal(interface)
  \/ \E k \in KeyEvents : KeyboardKey(k[1], k[2])
  \/ \E surface \in 1..MaxOutputs, p \in LocalPoints : PointerEnter(surface, p)
  \/ PointerLeave
  \/ \E p \in LocalPoints : PointerMotion(p)
  \/ \E b \in ButtonEvents : PointerButton(b[1], b[2])
  \/ \E surface \in 1..MaxOutputs : \E d \in DimsOf(surface) :
        LayerSurfaceConfigure(surface, d[1], d[2])
  \/ \E surface \in 1..MaxOutputs : LayerSurfaceClosed(surface)
  \/ \E output \in 1..MaxOutputs, d \in ModeSizes : OutputMode(output, d[1], d[2])
  \/ \E xdg_output \in 1..MaxOutputs :
        XdgOutputLogicalPosition(xdg_output, OriginOf(xdg_output)[1], OriginOf(xdg_output)[2])
  \/ EndRoundtrip1
  \/ LoopContinue
  \/ ProcessExit

Spec == Init /\ [][Next]_vars

\* ------------------------------------------------ get_selection_box
\* The pure function on its own: the two corners are drawn from a grid of
\* points around the origin, and the one step applies the function to them.
BoxPoints == (-BoxRange..BoxRange) \X (-BoxRange..BoxRange)

InitBox ==
  /\ phase = "pure"
  /\ start_pos \in { Some(p) : p \in BoxPoints }
  /\ current_pos \in BoxPoints
  /\ running = TRUE
  /\ exit_code = 0
  /\ globals = {}
  /\ outputs = <<>>
  /\ current_output = None
  /\ selections = <<>>
  /\ selection = None
  /\ stdout = <<>>
  /\ stderr = <<>>
  /\ status = None
  /\ live = {}
  /\ configured = <<>>
  /\ commits = <<>>
  /\ acks = <<>>
  /\ requests = <<>>
  /\ allocs = <<>>
  /\ last = << "none" >>
  /\ late = 0

\* `let selection = get_selection_box(start, state.current_pos)`
ApplyBox ==
  /\ phase = "pure"
  /\ selection = None
  /\ selection' = Some(get_selection_box(Unwrap(start_pos), current_pos))
  /\ UNCHANGED << phase, running, exit_code, globals, outputs, start_pos, current_pos,
                  current_output, selections, stdout, stderr, status, live, configured,
                  commits, acks, requests, allocs, last, late >>

NextBox == ApplyBox

SpecBox == InitBox /\ [][NextBox]_vars

\* ==================================================================
\* Properties
\* ==================================================================

\* The step just taken handled the event ev.
Stepped(ev) == phase = "dispatch" /\ phase' = "dispatch" /\ last' = ev

\* n is v (in sub-pixel units) truncated toward zero to whole pixels.
IsTruncation(n, v) ==
  IF v >= 0
  THEN n * Scale <= v /\ v < (n + 1) * Scale
  ELSE (n - 1) * Scale < v /\ v <= n * Scale

AnchorX == Unwrap(start_pos)[1]
AnchorY == Unwrap(start_pos)[2]
SpanW == Abs(AnchorX - current_pos[1])
SpanH == Abs(AnchorY - current_pos[2])
CornerX == IF AnchorX <= current_pos[1] THEN AnchorX ELSE current_pos[1]
CornerY == IF AnchorY <= current_pos[2] THEN AnchorY ELSE current_pos[2]
ReleaseLeft == << "Button", BTN_LEFT, "Released" >>

\* C1: a primary-button release during a drag whose rectangle is wider and
\* higher than one pixel prints exactly one line "x,y WxH", x and y the smaller
\* of the two coordinates, W and H the absolute differences, each truncated to
\* an integer; it sets exit code 0 and clears running.  Press at (10,10),
\* motion to (50,40), release prints "10,10 40x30".
C1_CommitPrintsBox ==
  [][ ( /\ Stepped(ReleaseLeft)
        /\ IsSome(start_pos)
        /\ SpanW > Scale
        /\ SpanH > Scale )
      => /\ Len(stdout') = Len(stdout) + 1
         /\ SubSeq(stdout', 1, Len(stdout)) = stdout
         /\ LET line == stdout'[Len(stdout')]
                a == line.args
            IN  /\ IsTruncation(a[1], CornerX)
                /\ IsTruncation(a[2], CornerY)
                /\ IsTruncation(a[3], SpanW)
                /\ IsTruncation(a[4], SpanH)
                /\ line.text = ToString(a[1]) \o "," \o ToString(a[2]) \o " "
                                 \o ToString(a[3]) \o "x" \o ToString(a[4])
                /\ ( /\ start_pos = Some(<< 10 * Scale, 10 * Scale >>)
                     /\ current_pos = << 50 * Scale, 40 * Scale >> )
                   => line.text = "10,10 40x30"
         /\ exit_code' = 0
         /\ running' = FALSE ]_vars

\* C1 witness: the drag from (10,10) to (50,40) was released and committed.
C1_Witness ==
  /\ last = ReleaseLeft
  /\ selection = Some(<< 10 * Scale, 10 * Scale, 40 * Scale, 30 * Scale >>)
  /\ stdout = << [ text |-> "10,10 40x30", args |-> << 10, 10, 40, 30 >> ] >>
  /\ exit_code = 0
  /\ ~running

\* C2: a primary-button release during a drag whose rectangle has width <= 1
\* or height <= 1 cancels: running is cleared, the exit code is 1, nothing is
\* printed by it (and nothing was printed before when the session was running).
C2_SmallDragCancels ==
  [][ ( /\ Stepped(ReleaseLeft)
        /\ IsSome(start_pos)
        /\ (SpanW <= Scale \/ SpanH <= Scale) )
      => /\ running' = FALSE
         /\ exit_code' = 1
         /\ stdout' = stdout
         /\ running => stdout' = <<>> ]_vars

\* C2 witness: press and release at the same point, without moving.
C2_Witness ==
  /\ last = ReleaseLeft
  /\ selection = Some(<< 10 * Scale, 10 * Scale, 0, 0 >>)
  /\ late = 0
  /\ ~running
  /\ exit_code = 1
  /\ stdout = <<>>

\* C3 (as claimed): at most one selection line is ever printed, and a process
\* that printed a line exits with status 0.
C3_OneLineThenStatusZero ==
  /\ Len(stdout) <= 1
  /\ (phase = "exited" /\ stdout # <<>>) => status = Some(0)

\* C4: while the session is running, an Escape key press, a press of the
\* secondary button and a layer-surface Closed event each clear running, set
\* the exit code to 1 and print nothing; when the loop then sees the flag
\* before any further event, the process exits with status 1 and nothing
\* printed.
C4_CancelEvents ==
  /\ [][ ( /\ running
           /\ \/ Stepped(<< "Key", KEY_ESC, "Pressed" >>)
              \/ Stepped(<< "Button", BTN_RIGHT, "Pressed" >>)
              \/ \E s \in 1..MaxOutputs : Stepped(<< "Closed", s >>) )
         => /\ running' = FALSE
            /\ exit_code' = 1
            /\ stdout' = <<>> ]_vars
  /\ [][ ( /\ phase = "dispatch"
           /\ phase' = "exited"
           /\ late = 0
           /\ \/ last = << "Key", KEY_ESC, "Pressed" >>
              \/ last = << "Button", BTN_RIGHT, "Pressed" >>
              \/ \E s \in 1..MaxOutputs : last = << "Closed", s >> )
         => /\ status' = Some(1)
            /\ stdout' = <<>> ]_vars

\* C4 witness: Escape pressed before any button press ended the session.
C4_Witness ==
  /\ last = << "Key", KEY_ESC, "Pressed" >>
  /\ late = 0
  /\ start_pos = None
  /\ ~running
  /\ exit_code = 1
  /\ stdout = <<>>

\* C5 (as claimed): all four values of every printed line are non-negative.
C5_AllNonNegative ==
  \A i \in 1..Len(stdout) : \A k \in 1..4 : stdout[i].args[k] >= 0

\* C5 (amended): of every printed line, width and height are at least 1; x
\* (y) is non-negative exactly when the left (top) edge of the rectangle lies
\* right of (below) -1 in global coordinates, and negative otherwise.
C5_ExtentsPositive ==
  [][ ( /\ Len(stdout') > Len(stdout)
        /\ IsSome(start_pos) )
      => LET a == stdout'[Len(stdout')].args
         IN  /\ a[3] >= 1
             /\ a[4] >= 1
             /\ a[1] >= 0 <=> CornerX > -Scale
             /\ a[2] >= 0 <=> CornerY > -Scale ]_vars

\* C5 witness: a committed line with a negative x.
C5_Witness ==
  /\ last = ReleaseLeft
  /\ stdout # <<>>
  /\ stdout[Len(stdout)].args[1] < 0
  /\ stdout[Len(stdout)].args[3] >= 1
  /\ stdout[Len(stdout)].args[4] >= 1

\* C6: an Enter on the surface of a registered output at local (lx, ly) makes
\* that output the focused one and the cursor (origin.x + lx, origin.y + ly);
\* a Motion while an output is focused lifts its position the same way.  With
\* origins (0,0) and (1920,0), entering the second at (5,5) gives (1925,5).
C6_EnterMotionLift ==
  [][ /\ \A s \in 1..Len(outputs) : \A p \in LocalPoints :
           Stepped(<< "Enter", s, p >>)
           => /\ current_output' = Some(s)
              /\ current_pos' = << outputs[s].logical_pos[1] * Scale + p[1],
                                   outputs[s].logical_pos[2] * Scale + p[2] >>
              /\ ( /\ Len(outputs) = 2
                   /\ outputs[1].logical_pos = << 0, 0 >>
                   /\ outputs[2].logical_pos = << 1920, 0 >>
                   /\ s = 2
                   /\ p = << 5 * Scale, 5 * Scale >> )
                 => current_pos' = << 1925 * Scale, 5 * Scale >>
      /\ \A p \in LocalPoints :
           (Stepped(<< "Motion", p >>) /\ IsSome(current_output))
           => LET o == outputs[Unwrap(current_output)].logical_pos
              IN  /\ current_pos' = << o[1] * Scale + p[1], o[2] * Scale + p[2] >>
                  /\ current_output' = current_output ]_vars

\* C6 witness: outputs at (0,0) and (1920,0), the pointer entered the second at (5,5).
C6_Witness ==
  /\ Len(outputs) = 2
  /\ outputs[1].logical_pos = << 0, 0 >>
  /\ outputs[2].logical_pos = << 1920, 0 >>
  /\ last = << "Enter", 2, << 5 * Scale, 5 * Scale >> >>
  /\ current_output = Some(2)
  /\ current_pos = << 1925 * Scale, 5 * Scale >>

\* C7: a configure reporting the size the output's buffer already has leaves
\* the buffer, and the set of mappings, untouched, allocates nothing and
\* repaints that output; any other configure installs a newly allocated buffer
\* of exactly the reported size and releases the previous one.
C7_BufferReuse ==
  [][ \A s \in 1..Len(outputs) : \A d \in DimsOf(s) :
        Stepped(<< "Configure", s, d[1], d[2] >>)
        => LET old == outputs[s].buffer
               new == outputs'[s].buffer
           IN  /\ \A i \in 1..Len(outputs) : i # s => outputs'[i] = outputs[i]
               /\ Len(commits') = 1
               /\ commits'[1].output = s
               /\ commits'[1].mmap = Unwrap(new).mmap
               /\ IF /\ IsSome(old)
                     /\ Unwrap(old).width = d[1]
                     /\ Unwrap(old).height = d[2]
                  THEN /\ new = old
                       /\ live' = live
                       /\ allocs' = <<>>
                  ELSE /\ IsSome(new)
                       /\ Unwrap(new).width = d[1]
                       /\ Unwrap(new).height = d[2]
                       /\ Unwrap(new).mmap \notin live
                       /\ allocs' = << Unwrap(new).mmap >>
                       /\ live' = (live \cup { Unwrap(new).mmap })
                                   \ (IF IsSome(old) THEN { Unwrap(old).mmap } ELSE {}) ]_vars

\* C7 witness: a configure repeated the size of the buffer; nothing was allocated.
C7_Witness ==
  /\ Len(last) = 4
  /\ last[1] = "Configure"
  /\ allocs = <<>>
  /\ IsSome(outputs[last[2]].buffer)
  /\ Unwrap(outputs[last[2]].buffer).width = last[3]
  /\ Unwrap(outputs[last[2]].buffer).height = last[4]
  /\ Len(commits) = 1

\* C8: every buffer has the size of the last configure of its output's layer
\* surface; an output never configured has no buffer; no mapping is the
\* buffer of two outputs, and the mappings are exactly the outputs' buffers.
C8_BufferMatchesConfigure ==
  /\ Len(configured) = Len(outputs)
  /\ \A i \in 1..Len(outputs) :
       /\ IsSome(outputs[i].buffer)
          => configured[i] = Some(<< Unwrap(outputs[i].buffer).width,
                                     Unwrap(outputs[i].buffer).height >>)
       /\ ~IsSome(configured[i]) => ~IsSome(outputs[i].buffer)
       /\ IsSome(configured[i]) => IsSome(outputs[i].buffer)
  /\ \A i, j \in 1..Len(outputs) :
       (i # j /\ IsSome(outputs[i].buffer) /\ IsSome(outputs[j].buffer))
       => Unwrap(outputs[i].buffer).mmap # Unwrap(outputs[j].buffer).mmap
  /\ live = { Unwrap(outputs[i].buffer).mmap :
                i \in { k \in 1..Len(outputs) : IsSome(outputs[k].buffer) } }

\* C8 witness: two outputs with buffers, the first resized during the session.
C8_Witness ==
  /\ Len(outputs) = 2
  /\ IsSome(outputs[1].buffer)
  /\ IsSome(outputs[2].buffer)
  /\ configured[1] = Some(<< 1920, 1200 >>)
  /\ configured[2] = Some(<< 1920, 1080 >>)
  /\ Unwrap(outputs[1].buffer).mmap = 3

\* C9: a Leave clears the focused output and changes nothing else of the
\* session (anchor, cursor, running, exit code, output, buffers), and repaints
\* nothing; a Motion while no output is focused leaves the cursor where it
\* was and repaints nothing.
C9_LeaveKeepsDrag ==
  [][ /\ Stepped(<< "Leave" >>)
         => /\ current_output' = None
            /\ commits' = <<>>
            /\ UNCHANGED << start_pos, current_pos, running, exit_code, stdout,
                            outputs, selections, live, status >>
      /\ \A p \in LocalPoints :
           (Stepped(<< "Motion", p >>) /\ ~IsSome(current_output))
           => /\ commits' = <<>>
              /\ UNCHANGED << start_pos, current_pos, current_output, running, exit_code >> ]_vars

\* C9 witness: the pointer left its output during a drag; the drag goes on.
C9_Witness ==
  /\ last = << "Leave" >>
  /\ IsSome(start_pos)
  /\ current_output = None
  /\ running
  /\ current_pos # Unwrap(start_pos)

\* C10: for all points p1, p2 the box of p1 and p2 has width >= 0 and
\* height >= 0, its top-left corner is the smaller x and the smaller y, its
\* bottom-right corner (x + width, y + height) the larger x and the larger y,
\* and the box of p2 and p1 is the same.
C10_BoxNormalized ==
  IsSome(selection)
  => LET p1 == Unwrap(start_pos)
         p2 == current_pos
         b == Unwrap(selection)
     IN  /\ b[3] >= 0
         /\ b[4] >= 0
         /\ b[1] \in { p1[1], p2[1] } /\ b[1] <= p1[1] /\ b[1] <= p2[1]
         /\ b[2] \in { p1[2], p2[2] } /\ b[2] <= p1[2] /\ b[2] <= p2[2]
         /\ b[1] + b[3] \in { p1[1], p2[1] } /\ b[1] + b[3] >= p1[1] /\ b[1] + b[3] >= p2[1]
         /\ b[2] + b[4] \in { p1[2], p2[2] } /\ b[2] + b[4] >= p1[2] /\ b[2] + b[4] >= p2[2]
         /\ get_selection_box(p2, p1) = b

\* C10 witness: the box of a first point right of and above the second.
C10_Witness ==
  /\ phase = "pure"
  /\ IsSome(selection)
  /\ Unwrap(start_pos)[1] > current_pos[1]
  /\ Unwrap(start_pos)[2] < current_pos[2]
  /\ Unwrap(selection)[3] > 0
  /\ Unwrap(selection)[4] > 0

\* C11 (as claimed): once an event has cleared running, no event handled
\* afterwards changes the exit code, sets or clears the anchor, or prints a
\* line; a cancelled session never prints and never ends with exit code 0.
C11_TerminalAbsorbing ==
  [][ ( /\ phase = "dispatch"
        /\ phase' = "dispatch"
        /\ ~running )
      => UNCHANGED << running, exit_code, start_pos, stdout >> ]_vars

\* C12 (as claimed): a running session is stopped with exit code 1 only by a
\* secondary-button press, an Escape key press, a surface-closed event or a
\* primary-button release ending a drag whose rectangle is too small.
C12_OnlyCancelEventsStop ==
  [][ ( /\ phase = "dispatch"
        /\ phase' = "dispatch"
        /\ running
        /\ ~running'
        /\ exit_code' = 1 )
      => \/ last' = << "Button", BTN_RIGHT, "Pressed" >>
         \/ last' = << "Key", KEY_ESC, "Pressed" >>
         \/ \E s \in 1..MaxOutputs : last' = << "Closed", s >>
         \/ /\ last' = ReleaseLeft
            /\ IsSome(start_pos)
            /\ (SpanW <= Scale \/ SpanH <= Scale) ]_vars

\* C13: a Motion repaints (attaches and commits on some surface) exactly when
\* a drag is in progress and an output is focused; while an output is focused
\* it updates the cursor, drag or not; it never touches the anchor.
C13_MotionRepaintsIffDragging ==
  [][ \A p \in LocalPoints :
        Stepped(<< "Motion", p >>)
        => /\ commits' # <<>> <=> (IsSome(start_pos) /\ IsSome(current_output))
           /\ requests' # <<>> <=> commits' # <<>>
           /\ IsSome(current_output)
              => current_pos' = ToGlobal(outputs[Unwrap(current_output)].logical_pos, p)
           /\ start_pos' = start_pos ]_vars

\* C13 witness: a Motion during a drag moved the cursor away from the anchor
\* and repainted.
C13_Witness ==
  /\ Len(last) = 2
  /\ last[1] = "Motion"
  /\ running
  /\ IsSome(start_pos)
  /\ IsSome(current_output)
  /\ current_pos # Unwrap(start_pos)
  /\ commits # <<>>
  /\ requests # <<>>

\* The outputs that have a buffer, in the order of the registry.
RECURSIVE BufferedFrom(_, _)
BufferedFrom(outs, i) ==
  IF i > Len(outs) THEN <<>>
  ELSE (IF IsSome(outs[i].buffer) THEN << i >> ELSE <<>>) \o BufferedFrom(outs, i + 1)

\* The outputs the event just handled painted, in order.
Painted(paints) == [ k \in 1..Len(paints) |-> paints[k].output ]

\* C14 (as claimed): a Motion during a drag paints no output but the focused
\* one; a button event that stops the session paints nothing.
C14_MotionPaintsFocusedOnly ==
  [][ /\ \A p \in LocalPoints :
           (Stepped(<< "Motion", p >>) /\ IsSome(start_pos) /\ IsSome(current_output))
           => \A k \in 1..Len(commits') : commits'[k].output = Unwrap(current_output)
      /\ \A b \in ButtonEvents :
           (Stepped(<< "Button", b[1], b[2] >>) /\ ~running')
           => commits' = <<>> /\ requests' = <<>> ]_vars

\* C14 (amended): a Motion during a drag with an output focused paints every
\* output that has a buffer, focused or not, once each and in the order of
\* the registry; outputs without a buffer get nothing.  A button event paints
\* nothing and sends no request, whether or not it stops the session.
C14_MotionPaintsEveryOutput ==
  [][ /\ \A p \in LocalPoints :
           (Stepped(<< "Motion", p >>) /\ IsSome(start_pos) /\ IsSome(current_output))
           => /\ Painted(commits') = BufferedFrom(outputs, 1)
              /\ \A k \in 1..Len(commits') :
                   /\ commits'[k].surface = outputs[commits'[k].output].surface
                   /\ commits'[k].mmap = Unwrap(outputs[commits'[k].output].buffer).mmap
              /\ requests' = PaintRequests(commits')
      /\ \A b \in ButtonEvents :
           Stepped(<< "Button", b[1], b[2] >>)
           => commits' = <<>> /\ requests' = <<>> ]_vars

\* C14 witness: two outputs have buffers and a Motion during a drag painted
\* both, the focused one and the other.
C14_Witness ==
  /\ Len(last) = 2
  /\ last[1] = "Motion"
  /\ IsSome(start_pos)
  /\ current_output = Some(2)
  /\ Len(outputs) = 2
  /\ Painted(commits) = << 1, 2 >>

PressLeft == << "Button", BTN_LEFT, "Pressed" >>

\* C15: a primary-button press with no anchor set makes the current global
\* cursor position the anchor; while the anchor is set, Motion, Enter, Leave,
\* configure, mode, logical-position and registry events leave it as it is.
\* A drag pressed at (10,10) of the output at (-1920,-1080) and released at
\* (50,40) of the output at (1920,0) prints "-1910,-1070 3880x1110".
C15_AnchorFixedDuringDrag ==
  [][ /\ (Stepped(PressLeft) /\ ~IsSome(start_pos))
         => /\ start_pos' = Some(current_pos)
            /\ current_pos' = current_pos
      /\ ( /\ phase = "dispatch"
           /\ phase' = "dispatch"
           /\ IsSome(start_pos)
           /\ last'[1] \in { "Motion", "Enter", "Leave", "Configure", "Mode",
                             "LogicalPosition", "Global" } )
         => start_pos' = start_pos
      /\ ( /\ Stepped(ReleaseLeft)
           /\ start_pos = Some(ToGlobal(<< -1920, -1080 >>, << 10 * Scale, 10 * Scale >>))
           /\ current_pos = ToGlobal(<< 1920, 0 >>, << 50 * Scale, 40 * Scale >>) )
         => /\ Len(stdout') = Len(stdout) + 1
            /\ stdout'[Len(stdout')].text = "-1910,-1070 3880x1110" ]_vars

\* C15 witness: the drag anchored on the first output was released on the
\* second and committed the rectangle spanning both.
C15_Witness ==
  /\ last = ReleaseLeft
  /\ late = 0
  /\ current_output = Some(2)
  /\ selection = Some(<< -1910 * Scale, -1070 * Scale, 3880 * Scale, 1110 * Scale >>)
  /\ stdout = << [ text |-> "-1910,-1070 3880x1110", args |-> << -1910, -1070, 3880, 1110 >> ] >>
  /\ exit_code = 0

\* C16: every paint of an output punches no rectangle when no anchor is set,
\* and exactly one when an anchor is set: the box of anchor and cursor, its
\* corner moved by the logical origin of that output, its extents as they
\* are.  The selections list is empty in every state.
C16_PaintsLiveRectangleOnly ==
  /\ selections = <<>>
  /\ \A k \in 1..Len(commits) :
       LET c == commits[k]
           o == outputs[c.output].logical_pos
       IN  IF IsSome(start_pos)
           THEN LET a == Unwrap(start_pos)
                    x == IF a[1] < current_pos[1] THEN a[1] ELSE current_pos[1]
                    y == IF a[2] < current_pos[2] THEN a[2] ELSE current_pos[2]
                IN  c.rects = << << x - o[1] * Scale, y - o[2] * Scale,
                                    Abs(a[1] - current_pos[1]), Abs(a[2] - current_pos[2]) >> >>
           ELSE c.rects = <<>>

\* C16 witness: a paint during a drag on an output whose origin is not (0,0)
\* punched the one live rectangle, of positive extents.
C16_Witness ==
  /\ IsSome(start_pos)
  /\ commits # <<>>
  /\ outputs[commits[1].output].logical_pos # << 0, 0 >>
  /\ Len(commits[1].rects) = 1
  /\ commits[1].rects[1][3] > 0
  /\ commits[1].rects[1][4] > 0

\* C17 (as claimed): whatever globals the server advertises and in whatever
\* order, a startup that ends with a required global not bound ends with the
\* diagnostic on stderr and exit status 1, and has created no overlay surface.
C17_MissingCapabilityDiagnosed ==
  [][ ( /\ phase = "roundtrip1"
        /\ phase' # "roundtrip1"
        /\ RequiredGlobals \ globals # {} )
      => /\ phase' = "exited"
         /\ status' = Some(1)
         /\ Len(stderr') = 2
         /\ stderr'[1] = "Error: Your compositor does not support the required Wayland protocols."
         /\ stderr'[2] = RequiredGlobals \ globals
         /\ outputs = <<>> ]_vars

\* ------------------------------------------------ stray references
\* The session with a compositor that also sends pointer Enter, configure,
\* mode and logical-position events for an object that is in no entry of
\* State.outputs.  The handlers are the same; only the ids the events may
\* carry differ.
EventIds == (1..MaxOutputs) \cup { StrayId }

NextStray ==
  \/ \E interface \in RequiredGlobals \cup { "wl_output" } : RegistryGlobal(interface)
  \/ \E k \in KeyEvents : KeyboardKey(k[1], k[2])
  \/ \E surface \in EventIds, p \in LocalPoints : PointerEnter(surface, p)
  \/ \E surface \in EventIds : \E d \in DimsOf(surface) :
        LayerSurfaceConfigure(surface, d[1], d[2])
  \/ \E output \in EventIds, d \in ModeSizes : OutputMode(output, d[1], d[2])
  \/ \E xdg_output \in EventIds :
        XdgOutputLogicalPosition(xdg_output, OriginOf(xdg_output)[1], OriginOf(xdg_output)[2])
  \/ EndRoundtrip1
  \/ LoopContinue
  \/ ProcessExit

SpecStray == Init /\ [][NextStray]_vars

\* The event just handled carried the id of no registered output.
StrayEvent(ev) ==
  /\ Len(ev) >= 2
  /\ ev[1] \in { "Enter", "Configure", "Mode", "LogicalPosition" }
  /\ ev[2] = StrayId

\* C18 (as claimed): a pointer Enter, configure, mode or logical-position
\* event that references a surface or output not in the registry stops the
\* session: the handler does not return to a session that is still running.
C18_StrayReferenceFatal ==
  [][ ( /\ phase = "dispatch"
        /\ running
        /\ StrayEvent(last') )
      => \/ phase' = "panicked"
         \/ ~running' ]_vars

\* C19: a buffer is attached to a surface only when its output has had a
\* configure, which the handler acknowledged before it painted: of the
\* requests of a configure the ack_configure comes first, before the attach
\* and the commit.  An output that has no buffer yet gets no attach and no
\* paint from any event; the only request on its surface is the commit
\* without a buffer that follows its creation.
C19_AttachAfterAckedConfigure ==
  /\ \A k \in 1..Len(requests) :
       requests[k][1] = "attach"
       => /\ requests[k][2] \in 1..Len(outputs)
          /\ IsSome(configured[requests[k][2]])
          /\ IsSome(outputs[requests[k][2]].buffer)
          /\ requests[k][3] = Unwrap(outputs[requests[k][2]].buffer).mmap
          /\ k + 2 <= Len(requests)
          /\ requests[k + 2] = << "commit", requests[k][2] >>
  /\ \A k \in 1..Len(requests) :
       (requests[k][1] = "commit" /\ ~IsSome(outputs[requests[k][2]].buffer))
       => last = << "Global", "wl_output" >> /\ requests = << << "commit", Len(outputs) >> >>
  /\ \A k \in 1..Len(commits) :
       /\ IsSome(configured[commits[k].output])
       /\ IsSome(outputs[commits[k].output].buffer)
  /\ (last[1] = "Configure" /\ last[2] \in 1..Len(outputs))
     => /\ acks = << last[2] >>
        /\ Len(requests) = 4
        /\ requests[1] = << "ack_configure", last[2] >>
        /\ requests[2][1] = "attach"
        /\ requests[2][2] = last[2]
        /\ requests[4] = << "commit", last[2] >>
  /\ last[1] # "Configure" => acks = <<>>

\* C19 witness: the first configure of the second output was acknowledged,
\* then its new buffer attached and committed.
C19_Witness ==
  /\ last = << "Configure", 2, 1920, 1080 >>
  /\ allocs # <<>>
  /\ requests[1] = << "ack_configure", 2 >>
  /\ requests[2] = << "attach", 2, Unwrap(outputs[2].buffer).mmap >>
  /\ requests[4] = << "commit", 2 >>

\* C20: a release of the primary button while no anchor is set changes
\* nothing of the session: running, exit code, output, anchor, cursor and
\* focus stay as they are and nothing is painted.  A line is printed only by
\* a release of the primary button with an anchor set, and an anchor is set
\* only by a press of the primary button, to the cursor position.
C20_IdleReleaseNoOp ==
  [][ /\ (Stepped(ReleaseLeft) /\ ~IsSome(start_pos))
         => /\ UNCHANGED << running, exit_code, stdout, stderr, status, start_pos,
                            current_pos, current_output, outputs, selections, live >>
            /\ selection' = None
            /\ commits' = <<>>
            /\ requests' = <<>>
      /\ (phase = "dispatch" /\ stdout' # stdout)
         => /\ last' = ReleaseLeft
            /\ IsSome(start_pos)
      /\ (phase = "dispatch" /\ phase' = "dispatch" /\ ~IsSome(start_pos) /\ IsSome(start_pos'))
         => /\ last' = PressLeft
            /\ start_pos' = Some(current_pos) ]_vars

\* C20 witness: the primary button was released over an output with no
\* press before it; the session is running as before.
C20_Witness ==
  /\ last = ReleaseLeft
  /\ running
  /\ start_pos = None
  /\ selection = None
  /\ IsSome(current_output)
  /\ exit_code = 0
  /\ stdout = <<>>
====
